---- MODULE Spec2Model ----
(***************************************************************************)
(* HaircutPilot: the booking form's slot generator and multi-step          *)
(* workflow (client/src/components/booking-form.tsx), the appointment      *)
(* storage and routes (server/openai.ts) and the metrics aggregation.      *)
(*                                                                         *)
(* Time is counted in whole minutes from local midnight of "today" (the    *)
(* day of the first reading of the clock).  Money is counted in cents: the *)
(* price columns are decimal(10,2).                                        *)
(***************************************************************************)
EXTENDS Integers, Sequences, FiniteSets, TLC

VARIABLES
    now,            \* the wall clock, new Date()
    genDate,        \* generateTimeSlots: argument date
    genDuration,    \* generateTimeSlots: argument duration
    genSlots,       \* generateTimeSlots: returned slots
    genDone,        \* generateTimeSlots has returned
    services,           \* BookingForm prop: the salon's service catalogue
    currentStep,        \* BookingForm state
    selectedServices,   \* BookingForm state
    availableSlots,     \* BookingForm state
    totalDuration,      \* BookingForm state
    totalPrice,         \* BookingForm state, in cents
    formDate,           \* form value "date"
    formTimeSlot,       \* form value "timeSlot"
    formStylistId,      \* form value "stylistId"
    formContact,        \* form values firstName, lastName, email, phone, acceptTerms
    bookingData,        \* the argument of onSubmit, when the last step called it
    appointments,       \* the appointments table; a row's id is its index
    reviews,            \* the reviews table
    metrics,            \* the last getSalonMetrics call: its arguments and result
    serviceRows,        \* the services table; a row's id is its index
    stylistRows,        \* the stylists table; a row's id is its index
    listing,            \* the last listing route called: its arguments and result
    voiceCalls,         \* the voice_calls table; a row's id is its index
    voiceReply,         \* the last answer of POST /api/voice/process
    selectedAppointment,    \* Calendar state of each staff session, while its dialog is open
    pageStep,               \* Booking page state currentStep
    pageBookingData,        \* Booking page state bookingData
    confirmedAppointment,   \* Booking page state confirmedAppointment
    createPending,          \* createAppointmentMutation.isPending
    paymentPending,         \* createPaymentMutation: the request in flight
    timers                  \* the setTimeout callbacks not yet run

slotVars == <<genDate, genDuration, genSlots, genDone>>

formVars == <<services, currentStep, selectedServices, availableSlots, totalDuration,
              totalPrice, formDate, formTimeSlot, formStylistId, formContact,
              bookingData>>

dbVars == <<appointments, reviews, metrics>>

voiceVars == <<voiceCalls, voiceReply>>
calendarVars == <<selectedAppointment>>
serverVars == <<serviceRows, stylistRows, listing, voiceVars, calendarVars>>

pageVars == <<pageStep, pageBookingData, confirmedAppointment, createPending,
              paymentPending, timers>>

vars == <<now, slotVars, formVars, dbVars, serverVars, pageVars>>

\* null, for the fields that hold an identifier
None == "none"

\* an unset value (undefined) is the empty tuple, a set value v is <<v>>
Undefined == <<>>
Some(v) == <<v>>
ValueOf(opt) == opt[1]

----------------------------------------------------------------------------
(* Bounds of the model *)

\* the calendar offers today .. today + 60 days; the model offers 0 .. MaxDay
MaxDay == 2
\* durations handed to the slot generator are multiples of DurationUnit
DurationUnit == 15
MaxDurationUnits == 6
\* the booking form is opened at FormStartHour o'clock and the clock then
\* advances MaxTicks times by TickMinutes
FormStartHour == 7
TickMinutes == 240
MaxTicks == 1
\* the days and the prices (in cents) offered to the booking form
MaxFormDay == 1
\* the appointments table holds at most MaxAppointments rows and the
\* server's clock reads 0 .. MaxClock
MaxAppointments == 2
MaxClock == 2
\* getSalonMetrics is asked for [QueryStart, QueryEnd] over tables of at most
\* MaxMetricRows appointments and MaxReviews reviews
QueryStart == 1
QueryEnd == 2
MaxMetricRows == 2
MaxReviews == 1
\* the Booking page holds at most MaxTimers timeouts that have not run
MaxTimers == 2
\* the voice_calls table holds at most MaxVoiceCalls rows
MaxVoiceCalls == 2
\* the clock of the update requests runs from 0 to MaxUpdateClock
MaxUpdateClock == 1

----------------------------------------------------------------------------
(* Dates (date-fns / Date) *)

MinutesPerDay == 24 * 60

\* new Date(date) of a calendar day: local midnight of that day
startOfDay(day) == day * MinutesPerDay

\* Date.prototype.setHours(hour, minute, 0, 0)
setHours(t, hour, minute) == (t \div MinutesPerDay) * MinutesPerDay + hour * 60 + minute

\* Date.prototype.getHours()
getHours(t) == (t % MinutesPerDay) \div 60

\* Date.prototype.getMinutes()
getMinutes(t) == t % 60

addMinutes(t, amount) == t + amount

\* format(t, 'HH:mm'): the time of day; the day is dropped
formatHHmm(t) == [h |-> getHours(t), m |-> getMinutes(t)]

----------------------------------------------------------------------------
(* Slot generator *)

startHour == 9
endHour == 18
slotInterval == 30

\* a lead time mistyped as 12 minutes
minimumTimeShort(nowT) == addMinutes(nowT, 12)

\* const minimumTime = addMinutes(new Date(), 120)
minimumTime(nowT) == addMinutes(nowT, 120)

\* the two conditions under which a slot is pushed
slotKept(slotStart, slotEnd, nowT) ==
    /\ getHours(slotEnd) <= endHour
    /\ slotStart > minimumTime(nowT)

RECURSIVE slotLoop(_, _, _, _, _, _)
slotLoop(date, duration, nowT, hour, minute, slots) ==
    IF hour >= endHour THEN slots
    ELSE IF minute >= 60 THEN slotLoop(date, duration, nowT, hour + 1, 0, slots)
    ELSE LET slotStart == setHours(date, hour, minute)
             slotEnd == addMinutes(slotStart, duration)
         IN slotLoop(date, duration, nowT, hour, minute + slotInterval,
                     IF slotKept(slotStart, slotEnd, nowT)
                     THEN Append(slots, formatHHmm(slotStart))
                     ELSE slots)

generateTimeSlots(date, duration, nowT) ==
    slotLoop(date, duration, nowT, startHour, 0, <<>>)

\* the slot generator is not in use
SlotsIdle ==
    /\ genDate = 0
    /\ genDuration = 0
    /\ genSlots = <<>>
    /\ genDone = FALSE

----------------------------------------------------------------------------
(* Storage: the appointments and reviews tables *)

Salons == {"A", "B"}

Statuses == {"pending", "confirmed", "completed", "cancelled", "no_show"}

\* the services table: id, salonId, name
ServiceTable ==
    << [id |-> "s1", salonId |-> "A", name |-> "Coupe"],
       [id |-> "s2", salonId |-> "A", name |-> "Couleur"],
       [id |-> "s3", salonId |-> "B", name |-> "Brushing"],
       [id |-> "s4", salonId |-> "A", name |-> "Barbe"],
       [id |-> "s5", salonId |-> "A", name |-> "Soin"],
       [id |-> "s6", salonId |-> "A", name |-> "Lissage"],
       [id |-> "s7", salonId |-> "A", name |-> "Meches"],
       [id |-> "s8", salonId |-> "A", name |-> "Coupe"] >>

\* the tables as the migrations create them
DbIdle ==
    /\ appointments = <<>>
    /\ reviews = <<>>
    /\ metrics = Undefined

\* no service or stylist row is stored and no listing was sent
\* the staff sessions of the calendar
Sessions == {"staff1", "staff2"}

ServerIdle ==
    /\ selectedAppointment = [session \in Sessions |-> Undefined]
    /\ voiceCalls = <<>>
    /\ voiceReply = Undefined
    /\ serviceRows = <<>>
    /\ stylistRows = <<>>
    /\ listing = Undefined

\* the Booking page as useState and useMutation construct it
PageIdle ==
    /\ pageStep = "booking"
    /\ pageBookingData = Undefined
    /\ confirmedAppointment = Undefined
    /\ createPending = FALSE
    /\ paymentPending = Undefined
    /\ timers = <<>>

\* the column defaults of the appointments table and the generated columns,
\* applied to an insert
rowOfInsert(appointment, nowT) ==
    [salonId |-> appointment.salonId,
     clientId |-> appointment.clientId,
     stylistId |-> appointment.stylistId,
     serviceIds |-> appointment.serviceIds,
     startTime |-> appointment.startTime,
     endTime |-> appointment.endTime,
     status |-> IF "status" \in DOMAIN appointment THEN appointment.status
                ELSE "pending",
     totalAmount |-> appointment.totalAmount,
     paymentStatus |-> IF "paymentStatus" \in DOMAIN appointment
                       THEN appointment.paymentStatus ELSE "pending",
     stripePaymentIntentId |-> None,
     cancelledAt |-> Undefined,
     cancellationReason |-> None,
     updatedAt |-> nowT]

\* insertAppointmentSchema.parse: the notNull columns without a default
insertAppointmentSchema(body) ==
    /\ {"salonId", "clientId", "serviceIds", "startTime", "endTime", "totalAmount"}
           \subseteq DOMAIN body
    /\ body.salonId # None
    /\ body.clientId # None

\* two appointments of one stylist over intersecting intervals
Overlapping(a, b) ==
    /\ a.stylistId = b.stylistId
    /\ a.startTime < b.endTime
    /\ b.startTime < a.endTime

\* an insert that is refused when a stored appointment that is not cancelled
\* overlaps the new one
createAppointmentChecked(table, appointment, nowT) ==
    IF \E i \in DOMAIN table :
           table[i].status # "cancelled" /\ Overlapping(table[i], appointment)
    THEN table
    ELSE Append(table, rowOfInsert(appointment, nowT))

\* db.insert(appointments).values(appointment).returning()
createAppointment(table, appointment, nowT) ==
    Append(table, rowOfInsert(appointment, nowT))

\* a merge that takes updatedAt from the request when it names one
mergedRowKeepsStamp(row, appointment, nowT) ==
    [f \in DOMAIN row |->
        IF f \in DOMAIN appointment THEN appointment[f]
        ELSE IF f = "updatedAt" THEN nowT
        ELSE row[f]]

\* .set({ ...appointment, updatedAt: new Date() }): the row after the merge
mergedRow(row, appointment, nowT) ==
    [f \in DOMAIN row |->
        IF f = "updatedAt" THEN nowT
        ELSE IF f \in DOMAIN appointment THEN appointment[f]
        ELSE row[f]]

\* db.update(appointments).set(...).where(eq(appointments.id, id))
updateAppointment(table, id, appointment, nowT) ==
    [i \in DOMAIN table |->
        IF i = id THEN mergedRow(table[i], appointment, nowT) ELSE table[i]]

\* a cancellation that also voids the payment of the appointment
cancelledRowVoidsPayment(row, reason, nowT) ==
    [row EXCEPT !.status = "cancelled",
                !.cancelledAt = Some(nowT),
                !.cancellationReason = reason,
                !.paymentStatus = "pending",
                !.stripePaymentIntentId = None,
                !.updatedAt = nowT]

\* cancelAppointment: the fields it sets
cancelledRow(row, reason, nowT) ==
    [row EXCEPT !.status = "cancelled",
                !.cancelledAt = Some(nowT),
                !.cancellationReason = reason,
                !.updatedAt = nowT]

\* db.update(appointments).set({status: "cancelled", ...}).where(eq(appointments.id, id))
cancelAppointment(table, id, reason, nowT) ==
    [i \in DOMAIN table |->
        IF i = id THEN cancelledRow(table[i], reason, nowT) ELSE table[i]]

----------------------------------------------------------------------------
(* Storage: getSalonMetrics *)

\* the where clause of appointmentsInRange
inRange(apt, salonId, startDate, endDate) ==
    /\ apt.salonId = salonId
    /\ apt.startTime >= startDate
    /\ apt.startTime <= endDate

\* revenue counted over every appointment that was paid
countsAsRevenuePaid(apt) == apt.paymentStatus = "paid"

\* .filter(apt => apt.status === 'completed')
countsAsRevenue(apt) == apt.status = "completed"

\* .reduce((sum, apt) => sum + Number(apt.totalAmount), 0)
RECURSIVE reduceAmount(_, _)
reduceAmount(rows, sum) ==
    IF rows = <<>> THEN sum
    ELSE reduceAmount(Tail(rows), sum + Head(rows).totalAmount)

\* .reduce((sum, review) => sum + review.rating, 0)
RECURSIVE reduceRating(_, _)
reduceRating(rows, sum) ==
    IF rows = <<>> THEN sum
    ELSE reduceRating(Tail(rows), sum + Head(rows).rating)

\* an average that is 0 whenever the range holds no appointment
averageRatingScoped(rangeRows, salonReviews) ==
    IF Len(rangeRows) > 0 /\ Len(salonReviews) > 0
    THEN [num |-> reduceRating(salonReviews, 0), den |-> Len(salonReviews)]
    ELSE [num |-> 0, den |-> 1]

\* salonReviews.length > 0 ? sum / salonReviews.length : 0, as the fraction num/den
averageRatingOf(rangeRows, salonReviews) ==
    IF Len(salonReviews) > 0
    THEN [num |-> reduceRating(salonReviews, 0), den |-> Len(salonReviews)]
    ELSE [num |-> 0, den |-> 1]

\* serviceMap.get(serviceId) || 'Unknown Service', over the salon's services
serviceNameOf(salonId, serviceId) ==
    LET hits == SelectSeq(ServiceTable,
                          LAMBDA s : s.salonId = salonId /\ s.id = serviceId)
    IN IF hits = <<>> THEN "Unknown Service" ELSE hits[Len(hits)].name

\* serviceCount.set(name, (serviceCount.get(name) || 0) + 1): a Map keeps the
\* order in which its keys were first set
countSet(serviceCount, name) ==
    IF \E i \in 1..Len(serviceCount) : serviceCount[i].serviceName = name
    THEN [i \in 1..Len(serviceCount) |->
            IF serviceCount[i].serviceName = name
            THEN [serviceCount[i] EXCEPT !.count = @ + 1]
            ELSE serviceCount[i]]
    ELSE Append(serviceCount, [serviceName |-> name, count |-> 1])

\* apt.serviceIds.forEach(...)
RECURSIVE countServiceIds(_, _, _)
countServiceIds(serviceIds, salonId, serviceCount) ==
    IF serviceIds = <<>> THEN serviceCount
    ELSE countServiceIds(Tail(serviceIds), salonId,
                         countSet(serviceCount, serviceNameOf(salonId, Head(serviceIds))))

\* appointmentsInRange.forEach(...)
RECURSIVE countAppointments(_, _, _)
countAppointments(rows, salonId, serviceCount) ==
    IF rows = <<>> THEN serviceCount
    ELSE countAppointments(Tail(rows), salonId,
                           countServiceIds(Head(rows).serviceIds, salonId, serviceCount))

\* an insertion that puts an entry before the entries of the same count
RECURSIVE insertBeforeTies(_, _)
insertBeforeTies(sorted, entry) ==
    IF sorted = <<>> THEN <<entry>>
    ELSE IF Head(sorted).count > entry.count
         THEN <<Head(sorted)>> \o insertBeforeTies(Tail(sorted), entry)
         ELSE <<entry>> \o sorted

\* insertion of one entry into a list sorted by (a, b) => b.count - a.count,
\* after the entries that do not compare after it (the sort is stable)
RECURSIVE insertByCount(_, _)
insertByCount(sorted, entry) ==
    IF sorted = <<>> THEN <<entry>>
    ELSE IF Head(sorted).count >= entry.count
         THEN <<Head(sorted)>> \o insertByCount(Tail(sorted), entry)
         ELSE <<entry>> \o sorted

\* .sort((a, b) => b.count - a.count)
RECURSIVE sortByCount(_, _)
sortByCount(entries, sorted) ==
    IF entries = <<>> THEN sorted
    ELSE sortByCount(Tail(entries), insertByCount(sorted, Head(entries)))

\* .slice(0, 5)
slice5(entries) == SubSeq(entries, 1, IF Len(entries) < 5 THEN Len(entries) ELSE 5)

getSalonMetrics(table, reviewTable, salonId, startDate, endDate) ==
    LET appointmentsInRange ==
            SelectSeq(table, LAMBDA apt : inRange(apt, salonId, startDate, endDate))
        salonReviews == SelectSeq(reviewTable, LAMBDA r : r.salonId = salonId)
    IN [totalAppointments |-> Len(appointmentsInRange),
        totalRevenue |-> reduceAmount(SelectSeq(appointmentsInRange, countsAsRevenue), 0),
        noShows |-> Len(SelectSeq(appointmentsInRange,
                                  LAMBDA apt : apt.status = "no_show")),
        completedAppointments |-> Len(SelectSeq(appointmentsInRange,
                                                LAMBDA apt : apt.status = "completed")),
        averageRating |-> averageRatingOf(appointmentsInRange, salonReviews),
        topServices |-> slice5(sortByCount(
                            countAppointments(appointmentsInRange, salonId, <<>>), <<>>))]

----------------------------------------------------------------------------
(* Booking form: catalogue and inputs *)

ServiceIds == {"s1", "s2", "s3"}

\* services.durationMinutes of the three catalogue rows
DurationOfId == [id \in ServiceIds |->
                    IF id = "s1" THEN 30 ELSE IF id = "s2" THEN 45 ELSE 60]

\* catalogues whose rows take their price and deposit flag from the given sets
CatalogsOver(prices, flags) ==
    {[id \in ServiceIds |-> [durationMinutes |-> DurationOfId[id],
                             price |-> p[id],
                             requiresDeposit |-> f[id]]] :
        p \in [ServiceIds -> prices], f \in [ServiceIds -> flags]}

\* the stylists prop: one stylist, and "" for "Pas de préférence"
StylistChoices == {"", "st1"}

\* defaultValues of useForm
DefaultContact ==
    [firstName |-> "", lastName |-> "", email |-> "", phone |-> "", acceptTerms |-> FALSE]

CompleteContact ==
    [firstName |-> "Ann", lastName |-> "Lee", email |-> "ann@example.com",
     phone |-> "0601020304", acceptTerms |-> TRUE]

\* what a client may have typed into step 4
ContactInputs ==
    { CompleteContact,
      [CompleteContact EXCEPT !.email = ""],
      [CompleteContact EXCEPT !.email = "not-an-email"],
      [CompleteContact EXCEPT !.firstName = ""],
      [CompleteContact EXCEPT !.lastName = ""],
      [CompleteContact EXCEPT !.phone = ""],
      [CompleteContact EXCEPT !.acceptTerms = FALSE] }

\* z.string().email(): the address shapes among the inputs
IsEmail(e) == e = "ann@example.com"

----------------------------------------------------------------------------
(* Booking form: effects and handlers *)

\* a reduce that drops the accumulator: the duration of the service selected last
reduceDurationLast(selection, catalogue, total) ==
    IF selection = <<>> THEN total
    ELSE LET serviceId == selection[Len(selection)]
         IN IF serviceId \in DOMAIN catalogue
            THEN catalogue[serviceId].durationMinutes ELSE 0

\* selectedServices.reduce((total, id) => total + (service?.durationMinutes || 0), 0)
RECURSIVE reduceDuration(_, _, _)
reduceDuration(selection, catalogue, total) ==
    IF selection = <<>> THEN total
    ELSE LET serviceId == Head(selection)
         IN reduceDuration(Tail(selection), catalogue,
                total + (IF serviceId \in DOMAIN catalogue
                         THEN catalogue[serviceId].durationMinutes ELSE 0))

\* a reduce that drops the accumulator: the price of the service selected last
reducePriceLast(selection, catalogue, total) ==
    IF selection = <<>> THEN total
    ELSE LET serviceId == selection[Len(selection)]
         IN IF serviceId \in DOMAIN catalogue THEN catalogue[serviceId].price ELSE 0

\* selectedServices.reduce((total, id) => total + (Number(service?.price) || 0), 0)
RECURSIVE reducePrice(_, _, _)
reducePrice(selection, catalogue, total) ==
    IF selection = <<>> THEN total
    ELSE LET serviceId == Head(selection)
         IN reducePrice(Tail(selection), catalogue,
                total + (IF serviceId \in DOMAIN catalogue
                         THEN catalogue[serviceId].price ELSE 0))

includes(selection, serviceId) == \E i \in 1..Len(selection) : selection[i] = serviceId

\* handleServiceToggle: newSelection
newSelection(selection, serviceId, checked) ==
    IF checked THEN Append(selection, serviceId)
    ELSE SelectSeq(selection, LAMBDA id : id # serviceId)

\* the slot effect: runs when watchedDate, totalDuration or watchedStylist changed
slotEffect(depsChanged, watchedDate, duration, slots, nowT) ==
    IF depsChanged /\ watchedDate # Undefined /\ duration > 0
    THEN generateTimeSlots(ValueOf(watchedDate), duration, nowT)
    ELSE slots

\* selectedServices.some(id => service?.requiresDeposit)
requiresDepositOf(selection, catalogue) ==
    \E i \in 1..Len(selection) :
        selection[i] \in DOMAIN catalogue /\ catalogue[selection[i]].requiresDeposit

\* a deposit rounded down
depositFloor(requiresDeposit, price) == IF requiresDeposit THEN (2 * price) \div 10 ELSE 0

\* requiresDeposit ? Math.round(totalPrice * 0.2 * 100) / 100 : 0, in cents:
\* Math.round(x) is floor(x + 0.5), and x = price / 5
depositAmountOf(requiresDeposit, price) ==
    IF requiresDeposit THEN (2 * price + 5) \div 10 ELSE 0

\* a schema without the refinement of acceptTerms
schemaWithoutTerms(serviceIds, date, timeSlot, contact) ==
    /\ Len(serviceIds) >= 1
    /\ date # Undefined
    /\ timeSlot # Undefined
    /\ contact.firstName # ""
    /\ contact.lastName # ""
    /\ (contact.email = "" \/ IsEmail(contact.email))
    /\ contact.phone # ""

\* bookingSchema, as zodResolver applies it before handleFormSubmit is called
schemaAccepts(serviceIds, date, timeSlot, contact) ==
    /\ Len(serviceIds) >= 1
    /\ date # Undefined
    /\ timeSlot # Undefined
    /\ contact.firstName # ""
    /\ contact.lastName # ""
    /\ (contact.email = "" \/ IsEmail(contact.email))
    /\ contact.phone # ""
    /\ contact.acceptTerms = TRUE

\* handleFormSubmit: bookingData
handleFormSubmit(serviceIds, stylistId, date, timeSlot, contact, selection, catalogue, duration, price) ==
    LET startTime == setHours(date, timeSlot.h, timeSlot.m)
        endTime == addMinutes(startTime, duration)
        requiresDeposit == requiresDepositOf(selection, catalogue)
    IN [serviceIds |-> serviceIds,
        stylistId |-> stylistId,
        date |-> date,
        timeSlot |-> timeSlot,
        contact |-> contact,
        startTime |-> startTime,
        endTime |-> endTime,
        totalAmount |-> price,
        depositAmount |-> depositAmountOf(requiresDeposit, price),
        requiresPayment |-> requiresDeposit,
        clientId |-> None]

\* the form as useState and useForm construct it; the catalogue is not loaded
FormIdle ==
    /\ services = <<>>
    /\ currentStep = 1
    /\ selectedServices = <<>>
    /\ availableSlots = <<>>
    /\ totalDuration = 0
    /\ totalPrice = 0
    /\ formDate = Undefined
    /\ formTimeSlot = Undefined
    /\ formStylistId = ""
    /\ formContact = DefaultContact
    /\ bookingData = Undefined

\* onClick of a service card (step 1), then the totals effect and the slot effect
ToggleService(serviceId) ==
    /\ currentStep = 1
    /\ serviceId \in DOMAIN services
    /\ LET selection == newSelection(selectedServices, serviceId,
                                     ~includes(selectedServices, serviceId))
           duration == reduceDuration(selection, services, 0)
       IN /\ selectedServices' = selection
          /\ totalDuration' = duration
          /\ totalPrice' = reducePrice(selection, services, 0)
          /\ availableSlots' = slotEffect(duration # totalDuration, formDate, duration,
                                          availableSlots, now)
    /\ bookingData' = Undefined
    /\ UNCHANGED <<pageVars, serverVars>>
    /\ UNCHANGED <<now, slotVars, dbVars, services, currentStep, formDate, formTimeSlot,
                   formStylistId, formContact>>

\* handleNextStep ("Suivant", rendered while currentStep < 4)
handleNextStep ==
    /\ currentStep < 4
    /\ ~(currentStep = 1 /\ Len(selectedServices) = 0)
    /\ currentStep' = currentStep + 1
    /\ bookingData' = Undefined
    /\ UNCHANGED <<pageVars, serverVars>>
    /\ UNCHANGED <<now, slotVars, dbVars, services, selectedServices, availableSlots,
                   totalDuration, totalPrice, formDate, formTimeSlot, formStylistId,
                   formContact>>

\* handlePrevStep ("Précédent", disabled at step 1)
handlePrevStep ==
    /\ currentStep > 1
    /\ currentStep' = currentStep - 1
    /\ bookingData' = Undefined
    /\ UNCHANGED <<pageVars, serverVars>>
    /\ UNCHANGED <<now, slotVars, dbVars, services, selectedServices, availableSlots,
                   totalDuration, totalPrice, formDate, formTimeSlot, formStylistId,
                   formContact>>

\* onClick of a stylist card (step 2), then the slot effect
SelectStylist(stylistId) ==
    /\ currentStep = 2
    /\ formStylistId' = stylistId
    /\ availableSlots' = slotEffect(stylistId # formStylistId, formDate, totalDuration,
                                    availableSlots, now)
    /\ bookingData' = Undefined
    /\ UNCHANGED <<pageVars, serverVars>>
    /\ UNCHANGED <<now, slotVars, dbVars, services, currentStep, selectedServices,
                   totalDuration, totalPrice, formDate, formTimeSlot, formContact>>

\* Calendar onSelect (step 3): a new Date object, then the slot effect
SelectDate(day) ==
    /\ currentStep = 3
    /\ formDate' = Some(startOfDay(day))
    /\ availableSlots' = slotEffect(TRUE, Some(startOfDay(day)), totalDuration,
                                    availableSlots, now)
    /\ bookingData' = Undefined
    /\ UNCHANGED <<pageVars, serverVars>>
    /\ UNCHANGED <<now, slotVars, dbVars, services, currentStep, selectedServices,
                   totalDuration, totalPrice, formTimeSlot, formStylistId, formContact>>

\* Select onValueChange (step 3): one of the listed availableSlots
SelectTimeSlot(i) ==
    /\ currentStep = 3
    /\ i \in 1..Len(availableSlots)
    /\ formTimeSlot' = Some(availableSlots[i])
    /\ bookingData' = Undefined
    /\ UNCHANGED <<pageVars, serverVars>>
    /\ UNCHANGED <<now, slotVars, dbVars, services, currentStep, selectedServices,
                   availableSlots, totalDuration, totalPrice, formDate, formStylistId,
                   formContact>>

\* the inputs and the checkbox of step 4
EnterContact(contact) ==
    /\ currentStep = 4
    /\ formContact' = contact
    /\ bookingData' = Undefined
    /\ UNCHANGED <<pageVars, serverVars>>
    /\ UNCHANGED <<now, slotVars, dbVars, services, currentStep, selectedServices,
                   availableSlots, totalDuration, totalPrice, formDate, formTimeSlot,
                   formStylistId>>

\* form.handleSubmit(handleFormSubmit): the argument onSubmit is called with,
\* or Undefined when the resolver rejects the values and onSubmit is not called
submitted(accepted) ==
    IF accepted
    THEN Some(handleFormSubmit(selectedServices, formStylistId, ValueOf(formDate),
                               ValueOf(formTimeSlot), formContact, selectedServices,
                               services, totalDuration, totalPrice))
    ELSE Undefined

\* "Confirmer la réservation" (step 4, disabled while isLoading), with an
\* onSubmit that changes nothing
SubmitForm ==
    /\ currentStep = 4
    /\ ~createPending
    /\ bookingData' = submitted(schemaAccepts(selectedServices, formDate, formTimeSlot,
                                              formContact))
    /\ UNCHANGED <<pageVars, serverVars>>
    /\ UNCHANGED <<now, slotVars, dbVars, services, currentStep, selectedServices,
                   availableSlots, totalDuration, totalPrice, formDate, formTimeSlot,
                   formStylistId, formContact>>

\* time passes while the form is open
FormTick ==
    /\ now + TickMinutes <= FormStartHour * 60 + MaxTicks * TickMinutes
    /\ now' = now + TickMinutes
    /\ bookingData' = Undefined
    /\ UNCHANGED <<pageVars, serverVars>>
    /\ UNCHANGED <<slotVars, dbVars, services, currentStep, selectedServices, availableSlots,
                   totalDuration, totalPrice, formDate, formTimeSlot, formStylistId,
                   formContact>>

FormInitOver(catalogues) ==
    /\ ServerIdle
    /\ PageIdle
    /\ SlotsIdle
    /\ DbIdle
    /\ now = FormStartHour * 60
    /\ services \in catalogues
    /\ currentStep = 1
    /\ selectedServices = <<>>
    /\ availableSlots = <<>>
    /\ totalDuration = 0
    /\ totalPrice = 0
    /\ formDate = Undefined
    /\ formTimeSlot = Undefined
    /\ formStylistId = ""
    /\ formContact = DefaultContact
    /\ bookingData = Undefined

FormNextOver(days, slotIndexes, contacts) ==
    \/ \E serviceId \in ServiceIds : ToggleService(serviceId)
    \/ handleNextStep
    \/ handlePrevStep
    \/ \E stylistId \in StylistChoices : SelectStylist(stylistId)
    \/ \E day \in days : SelectDate(day)
    \/ \E i \in slotIndexes : SelectTimeSlot(i)
    \/ \E contact \in contacts : EnterContact(contact)
    \/ SubmitForm

----------------------------------------------------------------------------
(* The slot generator applied to every date, duration and clock reading *)

Days == 0..MaxDay
Durations == {k * DurationUnit : k \in 0..MaxDurationUnits}

SlotsInit ==
    /\ ServerIdle
    /\ PageIdle
    /\ FormIdle
    /\ DbIdle
    /\ now \in 0..(MinutesPerDay - 1)
    /\ genDate \in {startOfDay(d) : d \in Days}
    /\ genDuration \in Durations
    /\ genSlots = <<>>
    /\ genDone = FALSE

GenerateSlots ==
    /\ ~genDone
    /\ genSlots' = generateTimeSlots(genDate, genDuration, now)
    /\ genDone' = TRUE
    /\ UNCHANGED <<pageVars, serverVars>>
    /\ UNCHANGED <<now, genDate, genDuration, formVars, dbVars>>

SlotsNext == GenerateSlots

SpecSlots == SlotsInit /\ [][SlotsNext]_vars

\* minutes from midnight of a formatted slot
slotMinutes(s) == s.h * 60 + s.m

\* (C1) every returned slot starts at or after 09:00 and ends, with a
\* duration d > 0, at or before 18:00
C1_SlotsInsideWindow ==
    (genDone /\ genDuration > 0) =>
        \A i \in 1..Len(genSlots) :
            /\ startHour * 60 <= slotMinutes(genSlots[i])
            /\ slotMinutes(genSlots[i]) + genDuration <= endHour * 60

\* (C2) when the date is today, every returned slot starts at or after
\* now + 120 minutes
C2_LeadTimeToday ==
    (genDone /\ genDate = startOfDay(0)) =>
        \A i \in 1..Len(genSlots) :
            slotMinutes(genSlots[i]) >= now + 120

C2_Witness ==
    /\ genDone
    /\ genDate = startOfDay(0)
    /\ now = 10 * 60 + 17
    /\ Len(genSlots) > 0
    /\ genSlots[1] = [h |-> 12, m |-> 30]

\* (C3) today, 60 minutes of services, now = 07:00: the first slot is 09:00
C3_FirstSlotAtOpening ==
    (genDone /\ genDate = startOfDay(0) /\ genDuration = 60 /\ now = 7 * 60) =>
        /\ Len(genSlots) > 0
        /\ genSlots[1] = [h |-> 9, m |-> 0]

----------------------------------------------------------------------------
(* The booking form under every sequence of its handlers *)

SlotsPerDay == (endHour - startHour) * (60 \div slotInterval)

\* one catalogue: prices 25.00, deposits on every service
FormCatalogs == CatalogsOver({2500}, {TRUE})

FormInit == FormInitOver(FormCatalogs)

FormNext ==
    \/ FormNextOver(0..MaxFormDay, 1..SlotsPerDay, {CompleteContact})
    \/ FormTick

SpecForm == FormInit /\ [][FormNext]_vars

\* (C4) with no service selected the slot list is empty and the form is at step 1
C4_NoServiceNoSlots ==
    (Len(selectedServices) = 0) => (availableSlots = <<>> /\ currentStep = 1)

----------------------------------------------------------------------------
(* The booking form over every catalogue of prices and deposit flags *)

\* prices in cents: a free service, 0.02 and 19.99
Prices == {0, 2, 1999}

TotalsCatalogs == CatalogsOver(Prices, BOOLEAN)

TotalsInit == FormInitOver(TotalsCatalogs)

TotalsNext == FormNextOver({MaxFormDay}, {1}, {CompleteContact})

SpecTotals == TotalsInit /\ [][TotalsNext]_vars

\* the set of the ids of a selection
IdsOf(selection) == {selection[i] : i \in 1..Len(selection)}

\* the sum of the catalogue prices of a set of service ids
RECURSIVE PriceOfSet(_, _)
PriceOfSet(ids, catalogue) ==
    IF ids = {} THEN 0
    ELSE LET id == CHOOSE x \in ids : TRUE
         IN catalogue[id].price + PriceOfSet(ids \ {id}, catalogue)

DepositRequired(b) == \E id \in IdsOf(b.serviceIds) : services[id].requiresDeposit

\* d is b.totalAmount * 0.2 rounded to the cent
IsFifthRounded(d, amount) == 5 * d - amount \in -2..2

\* (C6) depositAmount is nonzero exactly when a selected service requires a
\* deposit, and is then totalAmount * 0.2 rounded to 2 decimals
C6_DepositIffRequired ==
    bookingData # Undefined =>
        LET b == ValueOf(bookingData)
        IN /\ (b.depositAmount # 0) <=> DepositRequired(b)
           /\ DepositRequired(b) => IsFifthRounded(b.depositAmount, b.totalAmount)

\* (C6, amended) depositAmount is totalAmount * 0.2 rounded to 2 decimals
\* when a selected service requires a deposit, and 0 otherwise; it is
\* nonzero exactly when a deposit is required and totalAmount >= 0.03
C6_DepositAmended ==
    bookingData # Undefined =>
        LET b == ValueOf(bookingData)
        IN /\ DepositRequired(b) => IsFifthRounded(b.depositAmount, b.totalAmount)
           /\ ~DepositRequired(b) => b.depositAmount = 0
           /\ (b.depositAmount # 0) <=> (DepositRequired(b) /\ b.totalAmount >= 3)
           /\ b.requiresPayment = DepositRequired(b)

C6_Witness ==
    /\ bookingData # Undefined
    /\ DepositRequired(ValueOf(bookingData))
    /\ ValueOf(bookingData).totalAmount = 2 + 1999 + 1999
    /\ ValueOf(bookingData).depositAmount = 800

----------------------------------------------------------------------------
(* The appointment routes under every sequence of requests *)

\* request bodies of POST /api/appointments
Drafts ==
    {[salonId |-> "A", clientId |-> "c1", stylistId |-> "st1", serviceIds |-> <<"s1">>,
      startTime |-> 1, endTime |-> 2, totalAmount |-> 2500],
     [salonId |-> "B", clientId |-> "c2", stylistId |-> "st2", serviceIds |-> <<"s3">>,
      startTime |-> 1, endTime |-> 2, totalAmount |-> 3000, status |-> "confirmed"]}

\* request bodies of PATCH /api/appointments/:id
PatchBodies == {[status |-> s] : s \in Statuses}

\* req.body.reason of POST /api/appointments/:id/cancel: absent, or given
CancelReasons == {Undefined, Some("Cancelled from admin")}

\* req.body of POST /api/webhooks/stripe
StripeEvents(ids) ==
    {[type |-> t, id |-> "pi_1", appointmentId |-> a] :
        t \in {"payment_intent.succeeded", "payment_intent.payment_failed"},
        a \in {Undefined} \cup {Some(i) : i \in ids}}

\* POST /api/appointments
PostAppointment(body) ==
    /\ Len(appointments) < MaxAppointments
    /\ insertAppointmentSchema(body)
    /\ appointments' = createAppointment(appointments, body, now)
    /\ UNCHANGED <<pageVars, serverVars>>
    /\ UNCHANGED <<now, slotVars, formVars, reviews, metrics>>

\* PATCH /api/appointments/:id
PatchAppointment(id, updates) ==
    /\ id \in DOMAIN appointments
    /\ appointments' = updateAppointment(appointments, id, updates, now)
    /\ UNCHANGED <<pageVars, serverVars>>
    /\ UNCHANGED <<now, slotVars, formVars, reviews, metrics>>

\* POST /api/appointments/:id/cancel
PostCancel(id, reason) ==
    /\ id \in DOMAIN appointments
    /\ appointments' = cancelAppointment(appointments, id,
                            IF reason = Undefined THEN "Cancelled by client"
                            ELSE ValueOf(reason), now)
    /\ UNCHANGED <<pageVars, serverVars>>
    /\ UNCHANGED <<now, slotVars, formVars, reviews, metrics>>

\* a webhook that marks the appointment as paid whatever the type of the event
stripeWebhookAnyType(table, event, nowT) ==
    IF event.appointmentId # Undefined
    THEN updateAppointment(table, ValueOf(event.appointmentId),
             [paymentStatus |-> "paid", stripePaymentIntentId |-> event.id], nowT)
    ELSE table

\* the table after POST /api/webhooks/stripe handled an event
stripeWebhook(table, event, nowT) ==
    IF event.type = "payment_intent.succeeded" /\ event.appointmentId # Undefined
    THEN updateAppointment(table, ValueOf(event.appointmentId),
             [paymentStatus |-> "paid", stripePaymentIntentId |-> event.id], nowT)
    ELSE table

\* POST /api/webhooks/stripe
PostStripeWebhook(event) ==
    /\ appointments' = stripeWebhook(appointments, event, now)
    /\ UNCHANGED <<pageVars, serverVars>>
    /\ UNCHANGED <<now, slotVars, formVars, reviews, metrics>>

\* the server's clock advances
ServerTick ==
    /\ now < MaxClock
    /\ now' = now + 1
    /\ UNCHANGED <<pageVars, serverVars>>
    /\ UNCHANGED <<slotVars, formVars, dbVars>>

LifecycleInit ==
    /\ ServerIdle
    /\ PageIdle
    /\ now = 0
    /\ SlotsIdle
    /\ FormIdle
    /\ DbIdle

LifecycleNext ==
    \/ \E body \in Drafts : PostAppointment(body)
    \/ \E id \in 1..MaxAppointments, updates \in PatchBodies : PatchAppointment(id, updates)
    \/ \E id \in 1..MaxAppointments, reason \in CancelReasons : PostCancel(id, reason)
    \/ \E event \in StripeEvents(1..MaxAppointments) : PostStripeWebhook(event)
    \/ ServerTick

SpecLifecycle == LifecycleInit /\ [][LifecycleNext]_vars

\* (C7) a Cancel of an already cancelled appointment leaves status cancelled
\* and keeps the cancelledAt and cancellationReason of the first Cancel
C7_SecondCancelIsNoOp ==
    [][\A id \in DOMAIN appointments :
          (/\ appointments[id].status = "cancelled"
           /\ appointments[id].cancelledAt # Undefined
           /\ \E reason \in CancelReasons : PostCancel(id, reason))
          => /\ appointments'[id].status = "cancelled"
             /\ appointments'[id].cancelledAt = appointments[id].cancelledAt
             /\ appointments'[id].cancellationReason = appointments[id].cancellationReason
      ]_vars

\* the changes of status the lifecycle allows
AllowedTransitions ==
    { <<"pending", "confirmed">>, <<"confirmed", "completed">>,
      <<"pending", "cancelled">>, <<"confirmed", "cancelled">>,
      <<"confirmed", "no_show">> }

\* (C8) every change of an appointment's status is an allowed transition, so
\* completed, cancelled and no_show are never left
C8_StatusTransitions ==
    [][\A id \in DOMAIN appointments :
          \/ appointments'[id].status = appointments[id].status
          \/ <<appointments[id].status, appointments'[id].status>> \in AllowedTransitions
      ]_vars

----------------------------------------------------------------------------
(* getSalonMetrics over every small table of appointments and reviews *)

\* the i-th row of a table: its amount, payment status and services are fixed
\* by its position; its salon, status and start time vary
AmountAt(i) == 1000 * (i + 1)
PaymentStatusAt(i) == IF i % 2 = 1 THEN "paid" ELSE "pending"
ServiceIdsAt(i) == IF i % 2 = 1 THEN <<"s1">> ELSE <<"s2", "s1">>

\* the i-th row of a table with the given salon, status and start time
MetricRowAt(i, salon, status, t) ==
    rowOfInsert([salonId |-> salon, clientId |-> "c1", stylistId |-> "st1",
                 serviceIds |-> ServiceIdsAt(i), startTime |-> t, endTime |-> t + 1,
                 totalAmount |-> AmountAt(i), status |-> status,
                 paymentStatus |-> PaymentStatusAt(i)], 0)

\* the start times of rows: before, inside and after the range asked for
MetricTimes == (QueryStart - 1)..(QueryEnd + 1)

\* the i-th review: its rating is fixed by its position, its salon varies
RatingAt(i) == ((3 * i) % 5) + 1

\* a table of three completed appointments of 50, 30 and 20 and two cancelled
\* ones of 40, all of salon A and in the range asked for
ScenarioTable ==
    [i \in 1..5 |->
        rowOfInsert([salonId |-> "A", clientId |-> "c1", stylistId |-> "st1",
                     serviceIds |-> <<"s1">>, startTime |-> QueryStart,
                     endTime |-> QueryStart + 1,
                     totalAmount |-> <<5000, 4000, 3000, 4000, 2000>>[i],
                     status |-> IF i \in {2, 4} THEN "cancelled" ELSE "completed",
                     paymentStatus |-> "paid"], 0)]

\* a table of completed appointments of salon A in the range asked for, one
\* per list of service ids
TableOfServiceIds(lists) ==
    [i \in 1..Len(lists) |->
        rowOfInsert([salonId |-> "A", clientId |-> "c1", stylistId |-> "st1",
                     serviceIds |-> lists[i], startTime |-> QueryStart,
                     endTime |-> QueryStart + 1, totalAmount |-> AmountAt(i),
                     status |-> "completed", paymentStatus |-> "paid"], 0)]

\* Coupe in three appointments and Couleur in one
TopServicesTable == TableOfServiceIds(<< <<"s1">>, <<"s2", "s1">>, <<"s1">> >>)

\* seven services under six names, Couleur twice and the others once
ManyServicesTable ==
    TableOfServiceIds(<< <<"s4", "s5", "s6", "s7", "s1", "s2">>, <<"s2">> >>)

\* two services of the same name, and a service of another salon
SameNameTable == TableOfServiceIds(<< <<"s3", "s1">>, <<"s8">> >>)

\* every table of at most MaxMetricRows appointments, or one of the tables
\* above, and every table of at most MaxReviews reviews
MetricsInit ==
    /\ ServerIdle
    /\ PageIdle
    /\ now = 0
    /\ SlotsIdle
    /\ FormIdle
    /\ \/ \E n \in 0..MaxMetricRows :
            \E salonOf \in [1..n -> Salons], statusOf \in [1..n -> Statuses],
               timeOf \in [1..n -> MetricTimes] :
                appointments = [i \in 1..n |->
                                   MetricRowAt(i, salonOf[i], statusOf[i], timeOf[i])]
       \/ appointments \in {ScenarioTable, TopServicesTable, ManyServicesTable,
                            SameNameTable}
    /\ \E n \in 0..MaxReviews :
         \E salonOf \in [1..n -> Salons] :
             reviews = [i \in 1..n |-> [salonId |-> salonOf[i], rating |-> RatingAt(i)]]
    /\ metrics = Undefined

\* storage.getSalonMetrics(salon.id, startDate, endDate)
GetSalonMetrics(salonId, startDate, endDate) ==
    /\ metrics' = Some([salonId |-> salonId, startDate |-> startDate, endDate |-> endDate,
                        result |-> getSalonMetrics(appointments, reviews, salonId,
                                                   startDate, endDate)])
    /\ UNCHANGED <<pageVars, serverVars>>
    /\ UNCHANGED <<now, slotVars, formVars, appointments, reviews>>

MetricsNext == \E salonId \in Salons : GetSalonMetrics(salonId, QueryStart, QueryEnd)

SpecMetrics == MetricsInit /\ [][MetricsNext]_vars

\* the ids of the rows the last metrics call ranges over
RowsInRange ==
    LET q == ValueOf(metrics)
    IN {i \in DOMAIN appointments :
            /\ appointments[i].salonId = q.salonId
            /\ q.startDate <= appointments[i].startTime
            /\ appointments[i].startTime <= q.endDate}

RECURSIVE AmountOfRows(_)
AmountOfRows(ids) ==
    IF ids = {} THEN 0
    ELSE LET i == CHOOSE x \in ids : TRUE
         IN appointments[i].totalAmount + AmountOfRows(ids \ {i})

\* (C9) totalRevenue is the sum of totalAmount over the salon's completed
\* appointments that start within [startDate, endDate], and of no other;
\* completed 50 + 30 + 20 and two cancelled of 40 give 100
C9_RevenueOfCompleted ==
    /\ metrics # Undefined =>
          ValueOf(metrics).result.totalRevenue =
              AmountOfRows({i \in RowsInRange : appointments[i].status = "completed"})
    /\ (metrics # Undefined /\ appointments = ScenarioTable
            /\ ValueOf(metrics).salonId = "A") =>
          ValueOf(metrics).result.totalRevenue = 10000

\* the metrics of salon A over ScenarioTable: the two cancelled rows are in
\* range and are left out of the revenue of 100
C9_Witness ==
    /\ metrics # Undefined
    /\ appointments = ScenarioTable
    /\ ValueOf(metrics).salonId = "A"
    /\ Cardinality(RowsInRange) = 5
    /\ ValueOf(metrics).result.totalRevenue = 10000

\* the salon of the last metrics call has no review
NoReviews == \A i \in DOMAIN reviews : reviews[i].salonId # ValueOf(metrics).salonId

RECURSIVE RatingOfReviews(_)
RatingOfReviews(ids) ==
    IF ids = {} THEN 0
    ELSE LET i == CHOOSE x \in ids : TRUE
         IN reviews[i].rating + RatingOfReviews(ids \ {i})

Occurrences ==
    UNION {{<<i, k>> : k \in 1..Len(appointments[i].serviceIds)} : i \in RowsInRange}

\* the service id at a place, and the name it is counted under
IdAt(o) == appointments[o[1]].serviceIds[o[2]]
NameAt(o) == serviceNameOf(ValueOf(metrics).salonId, IdAt(o))

\* place o1 is encountered before place o2
Before(o1, o2) == o1[1] < o2[1] \/ (o1[1] = o2[1] /\ o1[2] < o2[2])

NamesCounted == {NameAt(o) : o \in Occurrences}
CountOfName(name) == Cardinality({o \in Occurrences : NameAt(o) = name})
CountOfService(id) == Cardinality({o \in Occurrences : IdAt(o) = id})
FirstOf(name) ==
    CHOOSE o \in Occurrences :
        /\ NameAt(o) = name
        /\ \A o2 \in Occurrences : NameAt(o2) = name => (o2 = o \/ Before(o, o2))

\* entry a comes before entry b: a greater count, or the same count and
\* encountered first
RanksBefore(a, b) ==
    \/ a.count > b.count
    \/ a.count = b.count /\ Before(FirstOf(a.serviceName), FirstOf(b.serviceName))

\* (C11) topServices has at most 5 entries, sorted by count non-increasing,
\* ties in first-encountered order, and the count of each entry is the number
\* of occurrences of that service in the service-id lists of the in-range
\* appointments
C11_TopServicesByService ==
    metrics # Undefined =>
        LET top == ValueOf(metrics).result.topServices
        IN /\ Len(top) <= 5
           /\ \A i, j \in 1..Len(top) : i < j => RanksBefore(top[i], top[j])
           /\ \A i \in 1..Len(top) :
                 \E k \in 1..Len(ServiceTable) :
                    /\ ServiceTable[k].salonId = ValueOf(metrics).salonId
                    /\ ServiceTable[k].name = top[i].serviceName
                    /\ top[i].count = CountOfService(ServiceTable[k].id)

\* (C11, amended) topServices holds the first 5 names, by count non-increasing
\* and ties in first-encountered order, of the names the service ids of the
\* in-range appointments are counted under, each with the number of
\* occurrences of the ids counted under it; Coupe in 3 appointments and
\* Couleur in 1 gives [{Coupe,3},{Couleur,1}]
C11_TopServicesByName ==
    metrics # Undefined =>
        LET top == ValueOf(metrics).result.topServices
            names == {top[i].serviceName : i \in 1..Len(top)}
        IN /\ Len(top) = (IF Cardinality(NamesCounted) < 5
                          THEN Cardinality(NamesCounted) ELSE 5)
           /\ Cardinality(names) = Len(top)
           /\ \A i \in 1..Len(top) :
                 /\ top[i].serviceName \in NamesCounted
                 /\ top[i].count = CountOfName(top[i].serviceName)
           /\ \A i, j \in 1..Len(top) : i < j => RanksBefore(top[i], top[j])
           /\ \A name \in NamesCounted \ names :
                 \A i \in 1..Len(top) :
                    RanksBefore(top[i], [serviceName |-> name, count |-> CountOfName(name)])
           /\ (appointments = TopServicesTable /\ ValueOf(metrics).salonId = "A") =>
                 top = << [serviceName |-> "Coupe", count |-> 3],
                          [serviceName |-> "Couleur", count |-> 1] >>

\* the metrics of salon A over ManyServicesTable: six names are counted, the
\* four ties after Couleur are in first-encountered order and Coupe is cut
C11_Witness ==
    /\ metrics # Undefined
    /\ appointments = ManyServicesTable
    /\ ValueOf(metrics).salonId = "A"
    /\ Cardinality(NamesCounted) = 6
    /\ LET top == ValueOf(metrics).result.topServices
       IN /\ Len(top) = 5
          /\ top[1] = [serviceName |-> "Couleur", count |-> 2]
          /\ top[2].serviceName = "Barbe"
          /\ top[5].serviceName = "Meches"

\* (C12) the form moves from step 3 to step 4 only when a date is chosen and
\* the chosen time slot is in the slot generator's output for that date and
\* the total duration
C12_DateTimeBeforeContact ==
    [][(currentStep = 3 /\ currentStep' = 4) =>
          /\ formDate # Undefined
          /\ formTimeSlot # Undefined
          /\ includes(generateTimeSlots(ValueOf(formDate), totalDuration, now),
                      ValueOf(formTimeSlot))
      ]_vars

----------------------------------------------------------------------------
(* The Booking page: the form, the two mutations and the payment timeout *)

\* the ids the server gives to created appointments
PageAppointmentIds == {"a1", "a2"}

\* the catalogue the page loads: only s2 requires a deposit
PageCatalog ==
    [id \in ServiceIds |-> [durationMinutes |-> DurationOfId[id],
                            price |-> 2500,
                            requiresDeposit |-> (id = "s2")]]

\* the ids the page still refers to
IdsInUse ==
    {ValueOf(c).id : c \in {confirmedAppointment} \ {Undefined}}
        \cup {ValueOf(r) : r \in {paymentPending} \ {Undefined}}
        \cup {timers[i] : i \in 1..Len(timers)}

\* BookingForm is mounted only while currentStep === 'booking': its state
\* after the page's step became step
formAfter(step) ==
    IF step = "booking"
    THEN UNCHANGED <<currentStep, selectedServices, availableSlots, totalDuration,
                     totalPrice, formDate, formTimeSlot, formStylistId, formContact>>
    ELSE /\ currentStep' = 1
         /\ selectedServices' = <<>>
         /\ availableSlots' = <<>>
         /\ totalDuration' = 0
         /\ totalPrice' = 0
         /\ formDate' = Undefined
         /\ formTimeSlot' = Undefined
         /\ formStylistId' = ""
         /\ formContact' = DefaultContact

\* the submit button of the form on the page: handleFormSubmit, then
\* handleBookingSubmit as onSubmit
SubmitBooking ==
    /\ pageStep = "booking"
    /\ currentStep = 4
    /\ ~createPending
    /\ LET accepted == schemaAccepts(selectedServices, formDate, formTimeSlot,
                                     formContact)
       IN /\ bookingData' = submitted(accepted)
          /\ pageBookingData' = IF accepted THEN submitted(accepted)
                                ELSE pageBookingData
          /\ createPending' = accepted
    /\ UNCHANGED <<now, slotVars, dbVars, serverVars, services, currentStep,
                   selectedServices, availableSlots, totalDuration, totalPrice, formDate,
                   formTimeSlot, formStylistId, formContact, pageStep,
                   confirmedAppointment, paymentPending, timers>>

\* a success that always shows the confirmation
stepAlwaysConfirmation(data) == "confirmation"

\* the step createAppointmentMutation.onSuccess sets
stepAfterCreate(data) == IF data.requiresPayment THEN "payment" ELSE "confirmation"

\* createAppointmentMutation.onSuccess(appointment)
CreateSucceeds(id) ==
    /\ createPending
    /\ id \notin IdsInUse
    /\ createPending' = FALSE
    /\ confirmedAppointment' = Some([id |-> id])
    /\ pageStep' = IF pageBookingData = Undefined THEN pageStep
                   ELSE stepAfterCreate(ValueOf(pageBookingData))
    /\ formAfter(pageStep')
    /\ bookingData' = Undefined
    /\ UNCHANGED <<now, slotVars, dbVars, serverVars, services, pageBookingData,
                   paymentPending, timers>>

\* an onError that sends the client back to a fresh form
CreateFailsAndResets ==
    /\ createPending
    /\ createPending' = FALSE
    /\ bookingData' = Undefined
    /\ formAfter("payment")
    /\ UNCHANGED <<now, slotVars, dbVars, serverVars, services, pageStep, pageBookingData,
                   confirmedAppointment, paymentPending, timers>>

\* createAppointmentMutation.onError: a toast
CreateFails ==
    /\ createPending
    /\ createPending' = FALSE
    /\ bookingData' = Undefined
    /\ UNCHANGED <<now, slotVars, dbVars, serverVars, services, currentStep,
                   selectedServices, availableSlots, totalDuration, totalPrice, formDate,
                   formTimeSlot, formStylistId, formContact, pageStep, pageBookingData,
                   confirmedAppointment, paymentPending, timers>>

\* "Payer maintenant" (payment step, disabled while the mutation is pending)
handlePayment ==
    /\ pageStep = "payment"
    /\ confirmedAppointment # Undefined
    /\ pageBookingData # Undefined
    /\ paymentPending = Undefined
    /\ paymentPending' = Some(ValueOf(confirmedAppointment).id)
    /\ UNCHANGED <<now, slotVars, formVars, dbVars, serverVars, pageStep,
                   pageBookingData, confirmedAppointment, createPending, timers>>

\* createPaymentMutation.onSuccess: setTimeout(..., 2000)
PaymentSucceeds ==
    /\ paymentPending # Undefined
    /\ Len(timers) < MaxTimers
    /\ timers' = Append(timers, ValueOf(paymentPending))
    /\ paymentPending' = Undefined
    /\ UNCHANGED <<now, slotVars, formVars, dbVars, serverVars, pageStep,
                   pageBookingData, confirmedAppointment, createPending>>

\* createPaymentMutation.onError: a toast
PaymentFails ==
    /\ paymentPending # Undefined
    /\ paymentPending' = Undefined
    /\ UNCHANGED <<now, slotVars, formVars, dbVars, serverVars, pageStep,
                   pageBookingData, confirmedAppointment, createPending, timers>>

\* the callback of the timeout: setCurrentStep('confirmation')
TimerFires ==
    /\ timers # <<>>
    /\ timers' = Tail(timers)
    /\ pageStep' = "confirmation"
    /\ formAfter("confirmation")
    /\ bookingData' = Undefined
    /\ UNCHANGED <<now, slotVars, dbVars, serverVars, services, pageBookingData,
                   confirmedAppointment, createPending, paymentPending>>

\* "Nouveau RDV" (confirmation step)
NewAppointment ==
    /\ pageStep = "confirmation"
    /\ confirmedAppointment # Undefined
    /\ pageStep' = "booking"
    /\ pageBookingData' = Undefined
    /\ confirmedAppointment' = Undefined
    /\ UNCHANGED <<now, slotVars, formVars, dbVars, serverVars, createPending,
                   paymentPending, timers>>

PageInit == FormInitOver({PageCatalog})

\* what the client of the page toggles, picks and types
PageServiceIds == {"s1", "s2"}
PageContacts == {CompleteContact, [CompleteContact EXCEPT !.acceptTerms = FALSE]}

\* the handlers of the mounted form other than its submit button
PageFormNext ==
    /\ pageStep = "booking"
    /\ \/ \E serviceId \in PageServiceIds : ToggleService(serviceId)
       \/ handleNextStep
       \/ handlePrevStep
       \/ SelectStylist("st1")
       \/ SelectDate(MaxFormDay)
       \/ SelectTimeSlot(1)
       \/ \E contact \in PageContacts : EnterContact(contact)

PageNext ==
    \/ PageFormNext
    \/ SubmitBooking
    \/ \E id \in PageAppointmentIds : CreateSucceeds(id)
    \/ CreateFails
    \/ handlePayment
    \/ PaymentSucceeds
    \/ PaymentFails
    \/ TimerFires
    \/ NewAppointment

SpecPage == PageInit /\ [][PageNext]_vars

----------------------------------------------------------------------------
(* The submit button of the form over every contact input *)

SubmitInit == FormInitOver({PageCatalog})

SubmitNext == FormNextOver({MaxFormDay}, {1}, ContactInputs)

SpecSubmit == SubmitInit /\ [][SubmitNext]_vars

\* the values of the form are those of a complete booking
ValidBooking ==
    /\ formContact.firstName # ""
    /\ formContact.lastName # ""
    /\ formContact.phone # ""
    /\ formContact.acceptTerms
    /\ Len(selectedServices) >= 1
    /\ formDate # Undefined
    /\ formTimeSlot # Undefined
    /\ (formContact.email = "" \/ IsEmail(formContact.email))

\* (C13) onSubmit is called only from step 4 and only with first name, last
\* name and phone non-empty, the terms accepted, a service, a date and a time
\* slot set and an email that is empty or has an email shape; a press of the
\* submit button on other values calls nothing and leaves the step
C13_SubmitOnlyWhenValid ==
    [][/\ bookingData' # Undefined =>
             /\ ValidBooking
             /\ currentStep = 4
             /\ ValueOf(bookingData').contact = formContact
             /\ ValueOf(bookingData').serviceIds = selectedServices
       /\ (SubmitForm /\ ~ValidBooking) =>
             /\ bookingData' = Undefined
             /\ currentStep' = currentStep
      ]_vars

\* a booking submitted with an empty email
C13_Witness ==
    /\ bookingData # Undefined
    /\ ValidBooking
    /\ formContact.email = ""
    /\ ValueOf(bookingData).contact.email = ""

----------------------------------------------------------------------------
(* Storage: listings, and the deactivation of services and stylists *)

\* the where clause of getSalonAppointments: the second call of .where, made
\* when both dates are given, replaces the clause of the first call
whereOfSalonAppointments(apt, salonId, startDate, endDate) ==
    IF startDate # Undefined /\ endDate # Undefined
    THEN /\ apt.startTime >= ValueOf(startDate)
         /\ apt.startTime <= ValueOf(endDate)
    ELSE apt.salonId = salonId

\* insertion of a row id into a list of ids ordered by asc(startTime), after
\* the ids of the same startTime
RECURSIVE insertByStartTime(_, _, _)
insertByStartTime(table, ordered, id) ==
    IF ordered = <<>> THEN <<id>>
    ELSE IF table[Head(ordered)].startTime <= table[id].startTime
         THEN <<Head(ordered)>> \o insertByStartTime(table, Tail(ordered), id)
         ELSE <<id>> \o ordered

\* .orderBy(asc(appointments.startTime)) over the ids from..Len(table)
RECURSIVE orderByStartTime(_, _, _)
orderByStartTime(table, from, ordered) ==
    IF from > Len(table) THEN ordered
    ELSE orderByStartTime(table, from + 1, insertByStartTime(table, ordered, from))

\* getSalonAppointments: the ids of the rows returned, in their order
getSalonAppointments(table, salonId, startDate, endDate) ==
    SelectSeq(orderByStartTime(table, 1, <<>>),
              LAMBDA id : whereOfSalonAppointments(table[id], salonId, startDate, endDate))

\* a deletion that removes the row
deleteRowHard(rows, id) == SelectSeq(rows, LAMBDA row : row.id # id)

\* deleteService, deleteStylist: .set({ isActive: false }).where(eq(id, id))
deleteRow(rows, id) ==
    [i \in DOMAIN rows |->
        IF rows[i].id = id THEN [rows[i] EXCEPT !.isActive = FALSE] ELSE rows[i]]

\* getSalonServices, getSalonStylists
getSalonRows(rows, salonId) == SelectSeq(rows, LAMBDA row : row.salonId = salonId)

\* .filter(s => s.isActive) of the public routes
filterActive(rows) == SelectSeq(rows, LAMBDA row : row.isActive)

----------------------------------------------------------------------------
(* The storage routes under every sequence of requests *)

\* the stylists table: id, salonId
StylistTable ==
    << [id |-> "st1", salonId |-> "A"],
       [id |-> "st2", salonId |-> "B"],
       [id |-> "st3", salonId |-> "A"] >>

\* a row with the column default of isActive
withIsActive(row) ==
    [f \in DOMAIN row \cup {"isActive"} |-> IF f = "isActive" THEN TRUE ELSE row[f]]

\* request bodies of POST /api/appointments: those of Drafts, and one for the
\* stylist of the first over an interval that overlaps it, marked as paid
StoreDrafts ==
    Drafts \cup
    {[salonId |-> "A", clientId |-> "c2", stylistId |-> "st1", serviceIds |-> <<"s2">>,
      startTime |-> 0, endTime |-> 3, totalAmount |-> 3000, paymentStatus |-> "paid"]}

\* the ids and the query dates of the requests
StoreServiceIds == {"s1", "s3"}
StoreStylistIds == {"st1"}
StoreDates == {Undefined, Some(1)}

\* GET /api/appointments of the owner of salonId
GetAppointments(salonId, startDate, endDate) ==
    /\ listing' = Some([route |-> "appointments", salonId |-> salonId,
                        startDate |-> startDate, endDate |-> endDate,
                        rows |-> getSalonAppointments(appointments, salonId,
                                                      startDate, endDate)])
    /\ UNCHANGED <<now, slotVars, formVars, dbVars, pageVars, serviceRows, stylistRows,
                   voiceVars, calendarVars>>

\* DELETE /api/services/:id
DeleteService(id) ==
    /\ serviceRows' = deleteRow(serviceRows, id)
    /\ UNCHANGED <<now, slotVars, formVars, dbVars, pageVars, stylistRows, listing,
                   voiceVars, calendarVars>>

\* DELETE /api/stylists/:id
DeleteStylist(id) ==
    /\ stylistRows' = deleteRow(stylistRows, id)
    /\ UNCHANGED <<now, slotVars, formVars, dbVars, pageVars, serviceRows, listing,
                   voiceVars, calendarVars>>

\* GET /api/public/salon/:salonId/services
GetPublicServices(salonId) ==
    /\ listing' = Some([route |-> "services", salonId |-> salonId,
                        rows |-> filterActive(getSalonRows(serviceRows, salonId))])
    /\ UNCHANGED <<now, slotVars, formVars, dbVars, pageVars, serviceRows, stylistRows,
                   voiceVars, calendarVars>>

\* GET /api/public/salon/:salonId/stylists
GetPublicStylists(salonId) ==
    /\ listing' = Some([route |-> "stylists", salonId |-> salonId,
                        rows |-> filterActive(getSalonRows(stylistRows, salonId))])
    /\ UNCHANGED <<now, slotVars, formVars, dbVars, pageVars, serviceRows, stylistRows,
                   voiceVars, calendarVars>>

StoreInit ==
    /\ now = 0
    /\ SlotsIdle
    /\ FormIdle
    /\ PageIdle
    /\ DbIdle
    /\ selectedAppointment = [session \in Sessions |-> Undefined]
    /\ voiceCalls = <<>>
    /\ voiceReply = Undefined
    /\ serviceRows = [i \in DOMAIN ServiceTable |-> withIsActive(ServiceTable[i])]
    /\ stylistRows = [i \in DOMAIN StylistTable |-> withIsActive(StylistTable[i])]
    /\ listing = Undefined

StoreNext ==
    \/ \E body \in StoreDrafts : PostAppointment(body)
    \/ \E id \in 1..MaxAppointments : PostCancel(id, Undefined)
    \/ \E salonId \in Salons, startDate, endDate \in StoreDates :
          GetAppointments(salonId, startDate, endDate)
    \/ \E id \in StoreServiceIds : DeleteService(id)
    \/ \E id \in StoreStylistIds : DeleteStylist(id)
    \/ \E salonId \in Salons : GetPublicServices(salonId)
    \/ \E salonId \in Salons : GetPublicStylists(salonId)

SpecStore == StoreInit /\ [][StoreNext]_vars

----------------------------------------------------------------------------
(* C14: what POST /api/appointments stores *)

\* the value of field f of a request body, or dflt when the body has none
FieldOr(body, f, dflt) == IF f \in DOMAIN body THEN body[f] ELSE dflt

\* (C14) a creation inserts exactly one row, whose status is the status of
\* the request or pending when the request has none, and whose paymentStatus
\* is pending
C14_CreateInsertsPending ==
    [][\A body \in StoreDrafts :
          PostAppointment(body) =>
              /\ Len(appointments') = Len(appointments) + 1
              /\ SubSeq(appointments', 1, Len(appointments)) = appointments
              /\ appointments'[Len(appointments')].status = FieldOr(body, "status", "pending")
              /\ appointments'[Len(appointments')].paymentStatus = "pending"]_vars

----------------------------------------------------------------------------
(* C15: the listing of a salon's appointments *)

\* the appointments a listing returned
ListedAppointments(l) == {appointments[l.rows[i]] : i \in DOMAIN l.rows}

\* (C15) the appointments listed for a salon are all of that salon, and with
\* startDate and endDate given they all start within [startDate, endDate]
C15_ListingOfSalonInRange ==
    (listing # Undefined /\ ValueOf(listing).route = "appointments") =>
        LET l == ValueOf(listing)
        IN \A apt \in ListedAppointments(l) :
              /\ apt.salonId = l.salonId
              /\ (l.startDate # Undefined /\ l.endDate # Undefined) =>
                     /\ apt.startTime >= ValueOf(l.startDate)
                     /\ apt.startTime <= ValueOf(l.endDate)

----------------------------------------------------------------------------
(* C16: deletion of a service or a stylist *)

\* after is before with the isActive flag of row id lowered, and nothing else
Deactivated(before, after, id) ==
    /\ Len(after) = Len(before)
    /\ \A i \in DOMAIN before :
          /\ after[i].id = before[i].id
          /\ after[i].salonId = before[i].salonId
          /\ after[i].isActive = (before[i].isActive /\ before[i].id # id)

\* the rows of a public listing are active rows of the table
ListsActiveOnly(l, rows) ==
    \A i \in DOMAIN l.rows :
        /\ l.rows[i].isActive
        /\ \E j \in DOMAIN rows : rows[j] = l.rows[i]

\* (C16) deleting a service or a stylist removes no row: the row stays with
\* isActive false, the appointments are unchanged, and the public listings of
\* services and stylists return only rows whose isActive flag is true
C16_SoftDelete ==
    [][/\ \A id \in StoreServiceIds :
             DeleteService(id) =>
                 /\ Deactivated(serviceRows, serviceRows', id)
                 /\ \E i \in DOMAIN serviceRows' :
                       serviceRows'[i].id = id /\ ~serviceRows'[i].isActive
                 /\ appointments' = appointments
       /\ \A id \in StoreStylistIds :
             DeleteStylist(id) =>
                 /\ Deactivated(stylistRows, stylistRows', id)
                 /\ \E i \in DOMAIN stylistRows' :
                       stylistRows'[i].id = id /\ ~stylistRows'[i].isActive
                 /\ appointments' = appointments
       /\ \A salonId \in Salons :
             /\ GetPublicServices(salonId) =>
                    ListsActiveOnly(ValueOf(listing'), serviceRows')
             /\ GetPublicStylists(salonId) =>
                    ListsActiveOnly(ValueOf(listing'), stylistRows')]_vars

\* service s1 and stylist st1 are deactivated and still stored, an appointment
\* still names them, and the public listing of salon A's services was sent
\* without s1
C16_Witness ==
    /\ \E i \in DOMAIN serviceRows : serviceRows[i].id = "s1" /\ ~serviceRows[i].isActive
    /\ \E i \in DOMAIN stylistRows : stylistRows[i].id = "st1" /\ ~stylistRows[i].isActive
    /\ \E i \in DOMAIN appointments :
          /\ appointments[i].stylistId = "st1"
          /\ appointments[i].serviceIds = <<"s1">>
    /\ listing # Undefined
    /\ ValueOf(listing).route = "services"
    /\ ValueOf(listing).salonId = "A"
    /\ Len(ValueOf(listing).rows) = 6
    /\ \A i \in DOMAIN ValueOf(listing).rows : ValueOf(listing).rows[i].id # "s1"

----------------------------------------------------------------------------
(* C17: creation makes no overlap check *)

\* (C17) whatever appointments are stored, a creation is accepted and stored
\* also when it names the stylist of a stored appointment over an overlapping
\* interval: the table gains the row and keeps the others
C17_CreateIgnoresOverlap ==
    \A body \in StoreDrafts :
        LET after == createAppointment(appointments, body, now)
            row == after[Len(after)]
        IN /\ insertAppointmentSchema(body)
           /\ Len(after) = Len(appointments) + 1
           /\ SubSeq(after, 1, Len(appointments)) = appointments
           /\ row.stylistId = body.stylistId
           /\ row.startTime = body.startTime
           /\ row.endTime = body.endTime
           /\ row.status # "cancelled"

\* two appointments of one stylist over overlapping intervals are stored and
\* neither is cancelled
C17_Witness ==
    /\ Len(appointments) = 2
    /\ Overlapping(appointments[1], appointments[2])
    /\ appointments[1].status # "cancelled"
    /\ appointments[2].status # "cancelled"
    /\ appointments[1].endTime # appointments[2].endTime

----------------------------------------------------------------------------
(* C18: the steps of the page after a creation *)

\* (C18) when the create-appointment request succeeds the page moves to the
\* payment step if and only if the submitted booking requires a deposit, and
\* to the confirmation step otherwise; the page leaves the payment step for
\* the confirmation step only by the timeout that a successful payment-intent
\* request armed
C18_PaymentBeforeConfirmation ==
    [][/\ \A id \in PageAppointmentIds :
             CreateSucceeds(id) =>
                 /\ pageBookingData # Undefined
                 /\ confirmedAppointment' = Some([id |-> id])
                 /\ (pageStep' = "payment") <=> DepositRequired(ValueOf(pageBookingData))
                 /\ (pageStep' = "confirmation") <=> ~DepositRequired(ValueOf(pageBookingData))
       /\ (pageStep = "payment" /\ pageStep' = "confirmation") =>
             /\ timers # <<>>
             /\ timers' = Tail(timers)
             /\ createPending' = createPending]_vars

\* the booking of a service that requires a deposit was created, its payment
\* was requested with success, and the page shows the confirmation
C18_Witness ==
    /\ pageStep = "confirmation"
    /\ confirmedAppointment = Some([id |-> "a1"])
    /\ pageBookingData # Undefined
    /\ DepositRequired(ValueOf(pageBookingData))
    /\ ValueOf(pageBookingData).depositAmount > 0
    /\ ~createPending
    /\ paymentPending = Undefined
    /\ timers = <<>>

----------------------------------------------------------------------------
(* C19: a creation that fails *)

\* (C19) when the create-appointment request fails the page stays on its
\* step, the form keeps its step, selected services, totals, stylist, date,
\* slot and contact values, no confirmed appointment is recorded, and the
\* submit button is enabled again
C19_FailureKeepsForm ==
    [][CreateFails =>
          /\ pageStep' = pageStep
          /\ currentStep' = currentStep
          /\ selectedServices' = selectedServices
          /\ totalDuration' = totalDuration
          /\ totalPrice' = totalPrice
          /\ formStylistId' = formStylistId
          /\ formDate' = formDate
          /\ formTimeSlot' = formTimeSlot
          /\ formContact' = formContact
          /\ confirmedAppointment' = Undefined
          /\ ~createPending']_vars

\* a submitted booking was neither created nor is pending: the page is on the
\* booking step, the form on its last step with the values of the submission,
\* no appointment is confirmed, and the submit button accepts the form again
C19_Witness ==
    /\ pageBookingData # Undefined
    /\ confirmedAppointment = Undefined
    /\ ~createPending
    /\ pageStep = "booking"
    /\ currentStep = 4
    /\ IdsOf(selectedServices) = IdsOf(ValueOf(pageBookingData).serviceIds)
    /\ formContact = CompleteContact
    /\ schemaAccepts(selectedServices, formDate, formTimeSlot, formContact)
    /\ ENABLED SubmitBooking

----------------------------------------------------------------------------
(* C20: the interval of a submitted booking *)

\* the sum of the catalogue durations of a set of service ids
RECURSIVE DurationOfSet(_, _)
DurationOfSet(ids, catalogue) ==
    IF ids = {} THEN 0
    ELSE LET id == CHOOSE x \in ids : TRUE
         IN catalogue[id].durationMinutes + DurationOfSet(ids \ {id}, catalogue)

----------------------------------------------------------------------------
(* Updates, cancellations and payments of stored appointments *)

\* request bodies of PATCH /api/appointments/:id: no field, one field, two
\* fields, and a body that names updatedAt
UpdateBodies ==
    { <<>>,
      [status |-> "confirmed"],
      [status |-> "completed", paymentStatus |-> "refunded"],
      [totalAmount |-> 9900, updatedAt |-> 0] }

\* the reason of the cancellations
UpdateReasons == {Some("Cancelled from admin")}

\* the table holds one appointment of each salon, created at time 0
UpdateInit ==
    /\ ServerIdle
    /\ PageIdle
    /\ now = 0
    /\ SlotsIdle
    /\ FormIdle
    /\ reviews = <<>>
    /\ metrics = Undefined
    /\ \E first \in Drafts : \E second \in Drafts \ {first} :
          appointments = createAppointment(createAppointment(<<>>, first, 0), second, 0)

\* the server's clock advances
UpdateTick ==
    /\ now < MaxUpdateClock
    /\ now' = now + 1
    /\ UNCHANGED <<slotVars, formVars, dbVars, pageVars, serverVars>>

UpdateNext ==
    \/ \E id \in DOMAIN appointments, updates \in UpdateBodies : PatchAppointment(id, updates)
    \/ \E id \in DOMAIN appointments, reason \in UpdateReasons : PostCancel(id, reason)
    \/ \E event \in StripeEvents(DOMAIN appointments) : PostStripeWebhook(event)
    \/ UpdateTick

SpecUpdate == UpdateInit /\ [][UpdateNext]_vars

----------------------------------------------------------------------------
(* C21: the frame of an update *)

\* the fields of row on which after differs from it
ChangedFields(row, after) == {f \in DOMAIN row : after[f] # row[f]}

\* (C21) an update of appointment id sets the fields its body names to the
\* values of the body, sets updatedAt to the time of the update, and changes
\* no other field of that appointment and no other appointment
C21_UpdateFrame ==
    \A id \in DOMAIN appointments, updates \in UpdateBodies :
        LET after == updateAppointment(appointments, id, updates, now)
        IN /\ DOMAIN after = DOMAIN appointments
           /\ \A other \in DOMAIN appointments \ {id} : after[other] = appointments[other]
           /\ DOMAIN after[id] = DOMAIN appointments[id]
           /\ \A f \in DOMAIN updates \ {"updatedAt"} : after[id][f] = updates[f]
           /\ after[id].updatedAt = now
           /\ ChangedFields(appointments[id], after[id])
                  \subseteq (DOMAIN updates \cup {"updatedAt"})

\* appointment 1 was updated at time 1 by the body that names totalAmount and
\* an updatedAt of 0, and appointment 2 is as it was created
C21_Witness ==
    /\ now = 1
    /\ appointments[1].totalAmount = 9900
    /\ appointments[1].updatedAt = 1
    /\ appointments[1].status = "pending"
    /\ appointments[1].paymentStatus = "pending"
    /\ appointments[2] = rowOfInsert(CHOOSE body \in Drafts : "status" \in DOMAIN body, 0)

----------------------------------------------------------------------------
(* C22: the payment webhook *)

\* (C22) a payment_intent.succeeded event that carries an appointmentId sets
\* the paymentStatus of that appointment to paid and its payment reference to
\* the id of the payment intent, and leaves its status, its other fields but
\* updatedAt, and the other appointments as they were; an event of another
\* type or without appointmentId changes no appointment
C22_WebhookMarksPaid ==
    \A event \in StripeEvents(DOMAIN appointments) :
        LET after == stripeWebhook(appointments, event, now)
        IN IF event.type = "payment_intent.succeeded" /\ event.appointmentId # Undefined
           THEN LET id == ValueOf(event.appointmentId)
                IN /\ after[id].paymentStatus = "paid"
                   /\ after[id].stripePaymentIntentId = event.id
                   /\ after[id].status = appointments[id].status
                   /\ after[id].updatedAt = now
                   /\ ChangedFields(appointments[id], after[id])
                          \subseteq {"paymentStatus", "stripePaymentIntentId", "updatedAt"}
                   /\ \A other \in DOMAIN appointments \ {id} :
                         after[other] = appointments[other]
           ELSE after = appointments

\* the payment of appointment 2, confirmed at its creation, succeeded at time
\* 1, and appointment 1 is unpaid
C22_Witness ==
    /\ appointments[2].paymentStatus = "paid"
    /\ appointments[2].stripePaymentIntentId = "pi_1"
    /\ appointments[2].status = "confirmed"
    /\ appointments[2].updatedAt = 1
    /\ appointments[2].cancelledAt = Undefined
    /\ appointments[1].paymentStatus = "pending"
    /\ appointments[1].stripePaymentIntentId = None

----------------------------------------------------------------------------
(* C23: the slots of a duration of zero *)

----------------------------------------------------------------------------
(* The voice receptionist: processVoiceInput and POST /api/voice/process *)

\* the reply of the catch block of processVoiceInput; confidence in hundredths
FallbackResult ==
    [intent |-> "unknown",
     entities |-> <<>>,
     response |-> "Desolee, je n'ai pas bien compris. Pourriez-vous repeter votre demande ?",
     confidence |-> 10]

\* the object a well-formed reply of the language model denotes
BookResult ==
    [intent |-> "book",
     entities |-> [service |-> "Coupe"],
     response |-> "Tres bien, je vous propose demain a 14h.",
     confidence |-> 85]

\* JSON.parse on the texts of the model: the value, or Undefined when it throws
jsonParse(text) ==
    CASE text = "{}" -> Some(<<>>)
      [] text = "{\"intent\":\"book\", ...}" -> Some(BookResult)
      [] OTHER -> Undefined

\* what openai.chat.completions.create does: it throws, or it resolves to a
\* message whose content is null, or a text
LlmOutcomes ==
    {[throws |-> TRUE, content |-> None]}
        \cup {[throws |-> FALSE, content |-> c] :
                 c \in {None, "", "Bonjour {", "{\"intent\":\"book\", ...}"}}

\* response.choices[0].message.content || '{}'
contentOrEmpty(content) == IF content = None \/ content = "" THEN "{}" ELSE content

\* a processVoiceInput whose catch block answers with an empty object
processVoiceInputEmpty(outcome) ==
    IF outcome.throws THEN <<>>
    ELSE LET parsed == jsonParse(contentOrEmpty(outcome.content))
         IN IF parsed = Undefined THEN <<>> ELSE ValueOf(parsed)

\* processVoiceInput: the value its promise resolves to
processVoiceInput(outcome) ==
    IF outcome.throws THEN FallbackResult
    ELSE LET parsed == jsonParse(contentOrEmpty(outcome.content))
         IN IF parsed = Undefined THEN FallbackResult ELSE ValueOf(parsed)

\* the row createVoiceCall inserts for a result, with the column default of status
voiceCallOf(salonId, transcript, result) ==
    [salonId |-> salonId,
     transcript |-> transcript,
     intent |-> FieldOr(result, "intent", None),
     entities |-> FieldOr(result, "entities", None),
     result |-> [type |-> "response", message |-> FieldOr(result, "response", None)],
     status |-> "completed"]

\* { ...result, callId: voiceCall.id }
withCallId(result, callId) ==
    [f \in DOMAIN result \cup {"callId"} |-> IF f = "callId" THEN callId ELSE result[f]]

Transcripts == {"Je voudrais une coupe demain", ""}

\* POST /api/voice/process
PostVoiceProcess(transcript, salonId, outcome) ==
    /\ Len(voiceCalls) < MaxVoiceCalls
    /\ LET result == processVoiceInput(outcome)
       IN /\ voiceCalls' = Append(voiceCalls, voiceCallOf(salonId, transcript, result))
          /\ voiceReply' = Some(withCallId(result, Len(voiceCalls) + 1))
    /\ UNCHANGED <<now, slotVars, formVars, dbVars, pageVars, serviceRows, stylistRows,
                   listing, calendarVars>>

VoiceInit ==
    /\ now = 0
    /\ SlotsIdle
    /\ FormIdle
    /\ PageIdle
    /\ DbIdle
    /\ ServerIdle

VoiceNext ==
    \E transcript \in Transcripts, salonId \in Salons, outcome \in LlmOutcomes :
        PostVoiceProcess(transcript, salonId, outcome)

SpecVoice == VoiceInit /\ [][VoiceNext]_vars

\* the outcomes in which the call of the language model or the parsing of its
\* reply throws
FailingOutcomes ==
    {outcome \in LlmOutcomes :
        outcome.throws \/ jsonParse(contentOrEmpty(outcome.content)) = Undefined}

\* (C24) when the call of the language model or the parsing of its reply
\* throws, processVoiceInput returns the fixed reply with intent unknown, no
\* entities and confidence 0.1, and POST /api/voice/process stores one voice
\* call of that result and answers with the result and the id of the call
C24_VoiceFallback ==
    [][\A transcript \in Transcripts, salonId \in Salons, outcome \in FailingOutcomes :
          PostVoiceProcess(transcript, salonId, outcome) =>
              /\ processVoiceInput(outcome) = FallbackResult
              /\ Len(voiceCalls') = Len(voiceCalls) + 1
              /\ SubSeq(voiceCalls', 1, Len(voiceCalls)) = voiceCalls
              /\ voiceCalls'[Len(voiceCalls')] =
                     [salonId |-> salonId, transcript |-> transcript,
                      intent |-> "unknown", entities |-> <<>>,
                      result |-> [type |-> "response",
                                  message |-> FallbackResult.response],
                      status |-> "completed"]
              /\ voiceReply' = Some([intent |-> "unknown", entities |-> <<>>,
                                     response |-> FallbackResult.response,
                                     confidence |-> 10,
                                     callId |-> Len(voiceCalls')])]_vars

\* a first call was understood, a second one fell back: it is stored as the
\* second voice call, and the answer carries its id
C24_Witness ==
    /\ Len(voiceCalls) = 2
    /\ voiceCalls[1].intent = "book"
    /\ voiceCalls[2].intent = "unknown"
    /\ voiceCalls[2].result.message = FallbackResult.response
    /\ voiceReply # Undefined
    /\ ValueOf(voiceReply).callId = 2
    /\ ValueOf(voiceReply).intent = "unknown"
    /\ ValueOf(voiceReply).confidence = 10

----------------------------------------------------------------------------
(* C25: the appointment of the payment and confirmation steps *)

\* (C25) whenever the page is on the payment or the confirmation step it
\* holds a created appointment
C25_StepHoldsAppointment ==
    pageStep \in {"payment", "confirmation"} => confirmedAppointment # Undefined

----------------------------------------------------------------------------
(* C26: the request the page sends for a validated booking *)

\* the salon of the page: params.salonId
PageSalonId == "A"

\* handleBookingSubmit: the body of the create-appointment request
appointmentDataOf(salonId, data) ==
    [salonId |-> salonId,
     clientId |-> data.clientId,
     stylistId |-> data.stylistId,
     serviceIds |-> data.serviceIds,
     startTime |-> data.startTime,
     endTime |-> data.endTime,
     totalAmount |-> data.totalAmount,
     depositAmount |-> data.depositAmount,
     channel |-> "form"]

\* (C26) the create-appointment request the page sends for a booking that
\* passed the validation of the form meets the requirements of POST
\* /api/appointments on its body, a client reference that is not null among them
C26_RequestMeetsCreate ==
    createPending =>
        /\ pageBookingData # Undefined
        /\ insertAppointmentSchema(appointmentDataOf(PageSalonId, ValueOf(pageBookingData)))

----------------------------------------------------------------------------
(* C27: the slot of a submitted booking *)

\* the elements of a sequence
ElementsOf(seq) == {seq[i] : i \in DOMAIN seq}

\* (C27) the time slot of a submitted booking is one of the slots the slot
\* generator yields for the submitted date and the total duration of the
\* selected services; the generator is taken at the time the form was opened,
\* when it yields every slot it yields at any later time of the session
C27_SubmittedSlotIsGenerated ==
    bookingData # Undefined =>
        ValueOf(bookingData).timeSlot \in
            ElementsOf(generateTimeSlots(ValueOf(bookingData).date,
                                         reduceDuration(selectedServices, services, 0),
                                         FormStartHour * 60))

----------------------------------------------------------------------------
(* The calendar: staff sessions acting on the appointments of their views *)

\* the salon of the staff sessions
CalendarSalonId == "A"

\* handleAppointmentClick: the dialog of the session shows the appointment as
\* the session's list holds it
OpenDetail(session, id) ==
    /\ id \in DOMAIN appointments
    /\ appointments[id].salonId = CalendarSalonId
    /\ selectedAppointment' =
           [selectedAppointment EXCEPT ![session] =
               Some([id |-> id, status |-> appointments[id].status])]
    /\ UNCHANGED <<now, slotVars, formVars, dbVars, pageVars, serviceRows, stylistRows,
                   listing, voiceVars>>

\* onOpenChange of the dialog
CloseDetail(session) ==
    /\ selectedAppointment[session] # Undefined
    /\ selectedAppointment' = [selectedAppointment EXCEPT ![session] = Undefined]
    /\ UNCHANGED <<now, slotVars, formVars, dbVars, pageVars, serviceRows, stylistRows,
                   listing, voiceVars>>

\* updateAppointmentMutation.mutate({id, status}) and its onSuccess
MutateStatus(session, status) ==
    /\ appointments' = updateAppointment(appointments, ValueOf(selectedAppointment[session]).id,
                                         [status |-> status], now)
    /\ selectedAppointment' = [selectedAppointment EXCEPT ![session] = Undefined]
    /\ UNCHANGED <<now, slotVars, formVars, reviews, metrics, pageVars, serviceRows,
                   stylistRows, listing, voiceVars>>

\* "Confirmer", shown when the appointment of the dialog is pending
ClickConfirm(session) ==
    /\ selectedAppointment[session] # Undefined
    /\ ValueOf(selectedAppointment[session]).status = "pending"
    /\ MutateStatus(session, "confirmed")

\* "Terminer", shown when the appointment of the dialog is confirmed
ClickComplete(session) ==
    /\ selectedAppointment[session] # Undefined
    /\ ValueOf(selectedAppointment[session]).status = "confirmed"
    /\ MutateStatus(session, "completed")

\* "Annuler", shown unless the appointment of the dialog is cancelled or
\* completed: cancelAppointmentMutation.mutate(id) and its onSuccess
ClickCancel(session) ==
    /\ selectedAppointment[session] # Undefined
    /\ ValueOf(selectedAppointment[session]).status \notin {"cancelled", "completed"}
    /\ appointments' = cancelAppointment(appointments, ValueOf(selectedAppointment[session]).id,
                                         "Cancelled from admin", now)
    /\ selectedAppointment' = [selectedAppointment EXCEPT ![session] = Undefined]
    /\ UNCHANGED <<now, slotVars, formVars, reviews, metrics, pageVars, serviceRows,
                   stylistRows, listing, voiceVars>>

CalendarNext ==
    \/ \E session \in Sessions, id \in 1..MaxAppointments : OpenDetail(session, id)
    \/ \E session \in Sessions : CloseDetail(session)
    \/ \E session \in Sessions : ClickConfirm(session)
    \/ \E session \in Sessions : ClickComplete(session)
    \/ \E session \in Sessions : ClickCancel(session)
    \/ UpdateTick

SpecCalendar == UpdateInit /\ [][CalendarNext]_vars

\* (C28) once the stored status of an appointment is cancelled, no action of
\* a staff session changes it to confirmed or completed
C28_CancelledStaysCancelled ==
    [][\A id \in DOMAIN appointments :
          appointments[id].status = "cancelled" =>
              appointments'[id].status \notin {"confirmed", "completed"}]_vars

----------------------------------------------------------------------------
(* C29: cancellation and payment of one appointment *)

\* the payment-success event of appointment id
PaidEvent(id) ==
    [type |-> "payment_intent.succeeded", id |-> "pi_1", appointmentId |-> Some(id)]

\* the times of two requests, the first not after the second
TwoTimes == {t \in (0..MaxUpdateClock) \X (0..MaxUpdateClock) : t[1] <= t[2]}

\* (C29) a cancellation and a payment-success event of one appointment give,
\* in either order, a record with status cancelled, the reason of the
\* cancellation, paymentStatus paid and the payment reference; the two orders
\* agree on every field but cancelledAt, the time of the cancellation, and
\* no other appointment is changed
C29_CancelAndPaidCommute ==
    \A id \in DOMAIN appointments, t \in TwoTimes :
        LET reason == "Cancelled from admin"
            cancelFirst == stripeWebhook(cancelAppointment(appointments, id, reason, t[1]),
                                         PaidEvent(id), t[2])
            paidFirst == cancelAppointment(stripeWebhook(appointments, PaidEvent(id), t[1]),
                                           id, reason, t[2])
        IN /\ \A after \in {cancelFirst, paidFirst} :
                 /\ after[id].status = "cancelled"
                 /\ after[id].cancellationReason = reason
                 /\ after[id].cancelledAt # Undefined
                 /\ after[id].paymentStatus = "paid"
                 /\ after[id].stripePaymentIntentId = "pi_1"
                 /\ after[id].updatedAt = t[2]
                 /\ \A other \in DOMAIN appointments \ {id} :
                       after[other] = appointments[other]
           /\ cancelFirst[id].cancelledAt = Some(t[1])
           /\ paidFirst[id].cancelledAt = Some(t[2])
           /\ ChangedFields(cancelFirst[id], paidFirst[id]) \subseteq {"cancelledAt"}
           /\ t[1] = t[2] => cancelFirst = paidFirst

\* appointment 1 was cancelled at time 0 and paid at time 1: it is cancelled
\* with its reason and paid with its payment reference
C29_Witness ==
    /\ appointments[1].status = "cancelled"
    /\ appointments[1].cancelledAt = Some(0)
    /\ appointments[1].cancellationReason = "Cancelled from admin"
    /\ appointments[1].paymentStatus = "paid"
    /\ appointments[1].stripePaymentIntentId = "pi_1"
    /\ appointments[1].updatedAt = 1

----------------------------------------------------------------------------
(* The callers of the update and cancel routes *)

\* the owners of the two salons, and a caller without a session
Callers == {"ownerA", "ownerB", "anonymous"}

\* storage.getUserSalon: the salon of a caller
SalonOfCaller(caller) ==
    CASE caller = "ownerA" -> "A"
      [] caller = "ownerB" -> "B"
      [] OTHER -> None

\* the isAuthenticated middleware lets the request through
isAuthenticated(caller) == caller # "anonymous"

\* PATCH /api/appointments/:id sent by caller
PatchAppointmentAs(caller, id, updates) ==
    /\ isAuthenticated(caller)
    /\ PatchAppointment(id, updates)

\* POST /api/appointments/:id/cancel sent by caller: the route has no middleware
PostCancelAs(caller, id, reason) == PostCancel(id, reason)

AccessNext ==
    \/ \E caller \in Callers, id \in DOMAIN appointments, updates \in UpdateBodies :
          PatchAppointmentAs(caller, id, updates)
    \/ \E caller \in Callers, id \in DOMAIN appointments, reason \in CancelReasons :
          PostCancelAs(caller, id, reason)
    \/ UpdateTick

SpecAccess == UpdateInit /\ [][AccessNext]_vars

\* (C30) an update or cancel request changes only appointments of the salon
\* of the caller who sent it: a request of the owner of salon A, or of a
\* caller without a session, changes no appointment of another salon
C30_OnlyOwnSalon ==
    [][\A caller \in Callers, id \in DOMAIN appointments :
          (\/ \E updates \in UpdateBodies : PatchAppointmentAs(caller, id, updates)
           \/ \E reason \in CancelReasons : PostCancelAs(caller, id, reason))
          => \A i \in DOMAIN appointments :
                appointments'[i] # appointments[i] =>
                    appointments[i].salonId = SalonOfCaller(caller)]_vars

====
